---------------------------- MODULE Spec2Model ----------------------------
(***************************************************************************)
(* Student records service (src/main.py): five FastAPI handlers over one   *)
(* MongoDB collection, db.students.  Every handler is modelled as the      *)
(* function of (collection, request) that its code computes; a handler     *)
(* with more than one await (create_student, get_students) is split at its *)
(* suspension points, where other requests may run.                        *)
(***************************************************************************)
EXTENDS Integers, Sequences, FiniteSets, TLC

(***************************************************************************)
(* Bounds of the model.                                                    *)
(***************************************************************************)
\* inserts attempted over a run
MaxCreates == 2
\* create / list requests suspended at an await at the same time
MaxInFlight == 1
\* documents a cursor fetches per round trip
BatchSize == 1
\* first value of the driver's ObjectId counter (random in the driver)
InitialInc == 171
\* bytes of an ObjectId
OidBytes == 2

(***************************************************************************)
(* Python values: None, or Some(v) for a str or an int v.  A JSON body     *)
(* names each key (with null or a value) or omits it.                      *)
(***************************************************************************)
None == {}
Some(v) == {v}
ValueOf(o) == CHOOSE v \in o : TRUE
Absent == <<>>
Present(o) == <<o>>

Keys == {"name", "email", "age", "grade"}

\* StudentUpdate(**body): every key defaults to None
StudentUpdate(body) ==
    [k \in Keys |-> IF body[k] = Absent THEN None ELSE body[k][1]]

\* StudentCreate: name, email and age are required and not nullable
IsValidCreate(body) ==
    \A k \in {"name", "email", "age"} : body[k] # Absent /\ body[k][1] # None

\* StudentCreate(**body) for a valid body: grade defaults to None
StudentCreate(body) ==
    [k \in Keys |-> IF body[k] = Absent THEN None ELSE body[k][1]]

(***************************************************************************)
(* bson.ObjectId: OidBytes bytes (12 in bson, fewer here), rendered as     *)
(* two lower-case hex digits a byte, parsed from hex digits of either      *)
(* case.                                                                   *)
(***************************************************************************)
HexDigits == <<"0", "1", "2", "3", "4", "5", "6", "7",
               "8", "9", "a", "b", "c", "d", "e", "f">>

HexValue(c) ==
    CASE c = "0" -> 0  [] c = "1" -> 1  [] c = "2" -> 2  [] c = "3" -> 3
      [] c = "4" -> 4  [] c = "5" -> 5  [] c = "6" -> 6  [] c = "7" -> 7
      [] c = "8" -> 8  [] c = "9" -> 9
      [] c \in {"a", "A"} -> 10  [] c \in {"b", "B"} -> 11
      [] c \in {"c", "C"} -> 12  [] c \in {"d", "D"} -> 13
      [] c \in {"e", "E"} -> 14  [] c \in {"f", "F"} -> 15
      [] OTHER -> -1

\* ObjectId.is_valid on a str: the right length, all hex
IsValidOid(s) ==
    /\ Len(s) = 2 * OidBytes
    /\ \A i \in 1..Len(s) : HexValue(s[i]) >= 0

\* ObjectId(s) for a valid s
ObjectId(s) ==
    [i \in 1..OidBytes |-> 16 * HexValue(s[2 * i - 1]) + HexValue(s[2 * i])]

\* str(oid)
OidStr(oid) ==
    [i \in 1..(2 * Len(oid)) |->
        IF i % 2 = 1 THEN HexDigits[(oid[(i + 1) \div 2] \div 16) + 1]
                     ELSE HexDigits[(oid[i \div 2] % 16) + 1]]

\* ObjectId() with a counter that is never advanced
NewObjectId_stuck(inc) ==
    [i \in 1..OidBytes |-> IF i = OidBytes THEN InitialInc % 256 ELSE 0]

\* ObjectId(): the driver's counter, big-endian (bson puts 4 bytes of time
\* and 5 random bytes before it)
RECURSIVE Pow256(_)
Pow256(n) == IF n = 0 THEN 1 ELSE 256 * Pow256(n - 1)
NewObjectId(inc) ==
    [i \in 1..OidBytes |-> (inc \div Pow256(OidBytes - i)) % 256]

(***************************************************************************)
(* The collection: documents in natural (record id) order.                 *)
(***************************************************************************)
SelectIdx(coll, oid) == {i \in 1..Len(coll) : coll[i].doc._id = oid}
FirstIdx(coll, oid) ==
    CHOOSE i \in SelectIdx(coll, oid) : \A j \in SelectIdx(coll, oid) : i <= j
RemoveAt(coll, i) ==
    [j \in 1..(Len(coll) - 1) |-> IF j < i THEN coll[j] ELSE coll[j + 1]]

\* collection.find_one({"_id": oid}): the document, or None
find_one(coll, oid) ==
    IF SelectIdx(coll, oid) = {} THEN None
    ELSE Some(coll[FirstIdx(coll, oid)].doc)

\* collection.insert_one(doc): appended under a fresh record id, unless the
\* _id is taken (DuplicateKeyError)
insert_one(coll, rid, doc) ==
    IF SelectIdx(coll, doc._id) # {} THEN [ok |-> FALSE, coll |-> coll]
    ELSE [ok |-> TRUE, coll |-> Append(coll, [rid |-> rid, doc |-> doc])]

\* {"$set": update_data} applied to one document
ApplySet(doc, update_data) ==
    [k \in DOMAIN doc |-> IF k \in DOMAIN update_data THEN update_data[k]
                          ELSE doc[k]]

\* collection.find_one_and_update(..., return_document=True)
find_one_and_update(coll, oid, update_data) ==
    IF SelectIdx(coll, oid) = {} THEN [found |-> None, coll |-> coll]
    ELSE LET i == FirstIdx(coll, oid)
             d == ApplySet(coll[i].doc, update_data)
         IN  [found |-> Some(d),
              coll  |-> [coll EXCEPT ![i] = [rid |-> coll[i].rid, doc |-> d]]]

\* collection.delete_one({"_id": oid})
delete_one(coll, oid) ==
    IF SelectIdx(coll, oid) = {} THEN [deleted_count |-> 0, coll |-> coll]
    ELSE [deleted_count |-> 1, coll |-> RemoveAt(coll, FirstIdx(coll, oid))]

(***************************************************************************)
(* Responses.                                                              *)
(***************************************************************************)
HTTPException(status_code, detail) ==
    [status |-> status_code, body |-> [detail |-> detail]]
Response(status_code, body) == [status |-> status_code, body |-> body]
\* an exception no handler catches: the framework answers 500
ServerError == Response(500, [detail |-> "Internal Server Error"])
ValidationError == Response(422, [detail |-> "Unprocessable Entity"])
NoContent == [none |-> TRUE]

\* student_helper reading a key the documents do not have
student_helper_nograde(student) ==
    [id    |-> OidStr(student._id),
     name  |-> student.name,
     email |-> student.email,
     age   |-> student.age,
     grade |-> None]

student_helper(student) ==
    [id    |-> OidStr(student._id),
     name  |-> student.name,
     email |-> student.email,
     age   |-> student.age,
     grade |-> student.grade]

(***************************************************************************)
(* Handlers with a single store call.  raises: the store call raises.      *)
(***************************************************************************)
\* get_student with ObjectId(student_id) outside the try
get_student_nocatch(coll, student_id, raises) ==
    IF ~IsValidOid(student_id)
    THEN [resp |-> ServerError, coll |-> coll]
    ELSE IF raises
    THEN [resp |-> HTTPException(400, "Invalid student ID format"), coll |-> coll]
    ELSE LET student == find_one(coll, ObjectId(student_id))
         IN  IF student # None
             THEN [resp |-> Response(200, student_helper(ValueOf(student))),
                   coll |-> coll]
             ELSE [resp |-> HTTPException(404, "Student not found"), coll |-> coll]

get_student(coll, student_id, raises) ==
    IF ~IsValidOid(student_id) \/ raises
    THEN [resp |-> HTTPException(400, "Invalid student ID format"), coll |-> coll]
    ELSE LET student == find_one(coll, ObjectId(student_id))
         IN  IF student # None
             THEN [resp |-> Response(200, student_helper(ValueOf(student))),
                   coll |-> coll]
             ELSE [resp |-> HTTPException(404, "Student not found"), coll |-> coll]

\* update_data filtered with "if v": 0 and "" are dropped too
UpdateData_truthy(student_update) ==
    LET ks == {k \in DOMAIN student_update :
                  /\ student_update[k] # None
                  /\ student_update[k] # (IF k = "age" THEN Some(0) ELSE Some(""))}
    IN  [k \in ks |-> student_update[k]]

\* update_data not filtered: student_update.dict()
UpdateData_unfiltered(student_update) == student_update

\* {k: v for k, v in student_update.dict().items() if v is not None}
UpdateData(student_update) ==
    LET ks == {k \in DOMAIN student_update : student_update[k] # None}
    IN  [k \in ks |-> student_update[k]]

\* update_student with the empty-payload check after the store call
update_student_idfirst(coll, student_id, student_update, raises) ==
    LET update_data == UpdateData(student_update)
    IN  IF ~IsValidOid(student_id) \/ raises
        THEN [resp |-> HTTPException(400, "Invalid student ID format"),
              coll |-> coll]
        ELSE IF Cardinality(DOMAIN update_data) < 1
        THEN [resp |-> HTTPException(400, "No fields to update"), coll |-> coll]
        ELSE LET r == find_one_and_update(coll, ObjectId(student_id), update_data)
             IN  IF r.found # None
                 THEN [resp |-> Response(200, student_helper(ValueOf(r.found))),
                       coll |-> r.coll]
                 ELSE [resp |-> HTTPException(404, "Student not found"),
                       coll |-> r.coll]

update_student(coll, student_id, student_update, raises) ==
    LET update_data == UpdateData(student_update)
    IN  IF Cardinality(DOMAIN update_data) < 1
        THEN [resp |-> HTTPException(400, "No fields to update"), coll |-> coll]
        ELSE IF ~IsValidOid(student_id) \/ raises
        THEN [resp |-> HTTPException(400, "Invalid student ID format"),
              coll |-> coll]
        ELSE LET r == find_one_and_update(coll, ObjectId(student_id), update_data)
             IN  IF r.found # None
                 THEN [resp |-> Response(200, student_helper(ValueOf(r.found))),
                       coll |-> r.coll]
                 ELSE [resp |-> HTTPException(404, "Student not found"),
                       coll |-> r.coll]

\* delete_student without the deleted_count check
delete_student_nocount(coll, student_id, raises) ==
    IF ~IsValidOid(student_id) \/ raises
    THEN [resp |-> HTTPException(400, "Invalid student ID format"), coll |-> coll]
    ELSE [resp |-> Response(204, NoContent),
          coll |-> delete_one(coll, ObjectId(student_id)).coll]

\* delete_student without the try
delete_student_nocatch(coll, student_id, raises) ==
    IF ~IsValidOid(student_id) \/ raises
    THEN [resp |-> ServerError, coll |-> coll]
    ELSE LET delete_result == delete_one(coll, ObjectId(student_id))
         IN  IF delete_result.deleted_count = 0
             THEN [resp |-> HTTPException(404, "Student not found"),
                   coll |-> delete_result.coll]
             ELSE [resp |-> Response(204, NoContent), coll |-> delete_result.coll]

delete_student(coll, student_id, raises) ==
    IF ~IsValidOid(student_id) \/ raises
    THEN [resp |-> HTTPException(400, "Invalid student ID format"), coll |-> coll]
    ELSE LET delete_result == delete_one(coll, ObjectId(student_id))
         IN  IF delete_result.deleted_count = 0
             THEN [resp |-> HTTPException(404, "Student not found"),
                   coll |-> delete_result.coll]
             ELSE [resp |-> Response(204, NoContent), coll |-> delete_result.coll]

health_check == Response(200, [status |-> "ok"])

(***************************************************************************)
(* create_student: insert_one, await, find_one, await.                     *)
(***************************************************************************)
\* line 55, up to the first await: student.dict() with the driver's new _id
NewDocument(student, oid) ==
    [k \in Keys \cup {"_id"} |-> IF k = "_id" THEN oid ELSE student[k]]

\* lines 56-57, after the insert: find_one by inserted_id, then student_helper
create_student_find(coll, inserted_id, raises) ==
    IF raises THEN ServerError
    ELSE LET created_student == find_one(coll, inserted_id)
         IN  IF created_student = None
             THEN ServerError   \* student_helper(None): TypeError
             ELSE Response(201, student_helper(ValueOf(created_student)))

(***************************************************************************)
(* get_students: a cursor over the collection, fetched in batches.         *)
(***************************************************************************)
\* a cursor that resumes by offset, not by record id
Remaining_offset(coll, after) == SubSeq(coll, after + 1, Len(coll))

\* the entries with a record id above `after`, in natural order
Remaining(coll, after) == SelectSeq(coll, LAMBDA e : e.rid > after)

\* one round trip of the cursor: at most BatchSize documents; the cursor is
\* exhausted when the batch is not full
Fetch(coll, after) ==
    LET rest  == Remaining(coll, after)
        n     == IF Len(rest) < BatchSize THEN Len(rest) ELSE BatchSize
        batch == SubSeq(rest, 1, n)
    IN  [batch     |-> batch,
         after     |-> IF n = 0 THEN after ELSE batch[n].rid,
         exhausted |-> Len(rest) < BatchSize]

\* line 61 and db.students.find(): an empty list, a cursor at the start
NewCursor == [after |-> 0, students |-> <<>>]

\* lines 62-64 for one batch: the loop body on each document of the batch,
\* then the return when the cursor is exhausted
get_students_batch(coll, cursor, raises) ==
    IF raises THEN [done |-> TRUE, resp |-> ServerError, cursor |-> cursor]
    ELSE LET f == Fetch(coll, cursor.after)
             students_list ==
                 cursor.students \o
                   [i \in 1..Len(f.batch) |-> student_helper(f.batch[i].doc)]
         IN  [done   |-> f.exhausted,
              resp   |-> Response(200, [items |-> students_list]),
              cursor |-> [after |-> f.after, students |-> students_list]]

\* get_students with no other request running during it
RECURSIVE get_students(_, _)
get_students(coll, cursor) ==
    LET r == get_students_batch(coll, cursor, FALSE)
    IN  IF r.done THEN r.resp ELSE get_students(coll, r.cursor)

(***************************************************************************)
(* Request inputs.                                                         *)
(***************************************************************************)
Upper(c) ==
    CASE c = "a" -> "A" [] c = "b" -> "B" [] c = "c" -> "C"
      [] c = "d" -> "D" [] c = "e" -> "E" [] c = "f" -> "F" [] OTHER -> c
UpperStr(s) == [i \in 1..Len(s) |-> Upper(s[i])]

\* the ids the driver may issue in a run
IssuableOids ==
    {NewObjectId(inc) : inc \in InitialInc..(InitialInc + MaxCreates - 1)}
IssuableIds == {OidStr(o) : o \in IssuableOids}
FirstId == OidStr(NewObjectId(InitialInc))
\* an id the driver never issues
UnknownId == OidStr(NewObjectId(InitialInc - 1))

\* the ids the clients of a run send
StudentIds ==
    IssuableIds \cup {UpperStr(FirstId), UnknownId}
      \cup { <<"a", "b", "c">>, [FirstId EXCEPT ![1] = "g"] }

\* every id a handler's answer is examined on
AllStudentIds ==
    StudentIds
      \cup { <<>>, FirstId \o <<"0">>, Tail(FirstId),
             [FirstId EXCEPT ![Len(FirstId)] = "G"],
             [FirstId EXCEPT ![2] = "-"] }

ValidCreateBodies ==
    { [name |-> Present(Some("Ann")), email |-> Present(Some("a@x.com")),
       age |-> Present(Some(20)), grade |-> g] :
         g \in {Absent, Present(None), Present(Some("A"))} }
CreateBodies ==
    ValidCreateBodies
      \cup { [name |-> Absent, email |-> Present(Some("a@x.com")),
              age |-> Present(Some(20)), grade |-> Absent] }

Body(n, e, a, g) == [name |-> n, email |-> e, age |-> a, grade |-> g]

\* the bodies the clients of a run send
UpdateBodies ==
    { Body(Absent, Absent, Absent, Absent),
      Body(Absent, Absent, Present(None), Present(None)),
      Body(Absent, Absent, Present(Some(0)), Present(None)),
      Body(Absent, Absent, Absent, Present(Some(""))) }

\* every body a handler's answer is examined on
AllUpdateBodies ==
    UpdateBodies
      \cup { Body(Absent, Absent, a, g) :
               a \in {Absent, Present(None), Present(Some(0))},
               g \in {Absent, Present(None), Present(Some("A"))} }
      \cup { Body(Present(None), Present(None), Present(None), Present(None)),
             Body(Present(Some("")), Absent, Absent, Absent),
             Body(Present(None), Present(Some("b@x.com")), Absent, Absent),
             Body(Absent, Present(Some("b@x.com")), Present(None), Present(Some(""))),
             Body(Present(Some("")), Present(Some("b@x.com")),
                  Present(Some(0)), Present(Some("A"))) }

(***************************************************************************)
(* State.                                                                  *)
(***************************************************************************)
VARIABLES
    students,    \* db.students: sequence of [rid, doc] in natural order
    next_rid,    \* the collection's next record id
    oid_inc,     \* the driver's ObjectId counter
    creates,     \* create_student requests suspended after insert_one
    lists,       \* get_students requests suspended between batches
    resp,        \* the last response sent, with its request
    issued,      \* history: rid -> the _id the record was inserted with
    createLog,   \* history: _id -> what Create was given and returned, for
                 \*   records no Update or Delete has touched since insert
    deletedIds   \* history: the _ids deleted with 204

vars == <<students, next_rid, oid_inc, creates, lists, resp,
          issued, createLog, deletedIds>>

NoRequest == [none |-> TRUE]
NoBody == [none |-> TRUE]

\* a response as logged: req is the path id (get, update, delete) or the
\* validated body (create); store_error says a store call raised
Sent(op, req, r, store_error) ==
    [op |-> op, req |-> req, status |-> r.status, body |-> r.body,
     store_error |-> store_error]

Init ==
    /\ students = <<>>
    /\ next_rid = 1
    /\ oid_inc = InitialInc
    /\ creates = {}
    /\ lists = {}
    /\ resp = Sent("none", NoRequest, Response(0, NoBody), FALSE)
    /\ issued = <<>>
    /\ createLog = [o \in {} |-> NoBody]
    /\ deletedIds = {}

Drop(f, x) == [y \in DOMAIN f \ {x} |-> f[y]]
Put(f, x, v) == [y \in DOMAIN f \cup {x} |-> IF y = x THEN v ELSE f[y]]
Rids(coll) == {coll[i].rid : i \in 1..Len(coll)}

\* POST /students whose body fails validation
CreateInvalid(body) ==
    /\ ~IsValidCreate(body)
    /\ resp' = Sent("create", NoRequest, ValidationError, FALSE)
    /\ UNCHANGED <<students, next_rid, oid_inc, creates, lists,
                   issued, createLog, deletedIds>>

\* POST /students up to the end of insert_one
CreateInsert(body, raises) ==
    /\ IsValidCreate(body)
    /\ oid_inc < InitialInc + MaxCreates
    /\ Cardinality(creates) < MaxInFlight
    /\ LET student == StudentCreate(body)
           oid     == NewObjectId(oid_inc)
           r       == insert_one(students, next_rid, NewDocument(student, oid))
       IN  /\ oid_inc' = oid_inc + 1
           /\ IF raises \/ ~r.ok
              THEN /\ resp' = Sent("create", student, ServerError, raises)
                   /\ UNCHANGED <<students, next_rid, creates, issued, createLog>>
              ELSE /\ students' = r.coll
                   /\ next_rid' = next_rid + 1
                   /\ creates' = creates \cup
                          {[student |-> student, inserted_id |-> oid]}
                   /\ issued' = Append(issued, oid)
                   /\ createLog' = Put(createLog, oid,
                          [submitted |-> student, returned |-> NoBody])
                   /\ UNCHANGED resp
    /\ UNCHANGED <<lists, deletedIds>>

\* POST /students from find_one to the response
CreateFind(c, raises) ==
    /\ c \in creates
    /\ LET r == create_student_find(students, c.inserted_id, raises)
       IN  /\ resp' = Sent("create", c.student, r, raises)
           /\ createLog' =
                IF r.status = 201 /\ c.inserted_id \in DOMAIN createLog
                THEN [createLog EXCEPT ![c.inserted_id].returned = r.body]
                ELSE createLog
    /\ creates' = creates \ {c}
    /\ UNCHANGED <<students, next_rid, oid_inc, lists, issued, deletedIds>>

\* GET /students/{student_id}
GetById(student_id, raises) ==
    /\ LET r == get_student(students, student_id, raises)
       IN  resp' = Sent("get", student_id, r.resp,
                        raises /\ IsValidOid(student_id))
    /\ UNCHANGED <<students, next_rid, oid_inc, creates, lists,
                   issued, createLog, deletedIds>>

\* PUT /students/{student_id}
Update(student_id, body, raises) ==
    /\ LET student_update == StudentUpdate(body)
           r == update_student(students, student_id, student_update, raises)
       IN  /\ resp' = Sent("update", student_id, r.resp,
                           /\ raises
                           /\ IsValidOid(student_id)
                           /\ DOMAIN UpdateData(student_update) # {})
           /\ students' = r.coll
           /\ createLog' = IF r.resp.status = 200
                           THEN Drop(createLog, ObjectId(student_id))
                           ELSE createLog
    /\ UNCHANGED <<next_rid, oid_inc, creates, lists, issued, deletedIds>>

\* DELETE /students/{student_id}
Delete(student_id, raises) ==
    /\ LET r == delete_student(students, student_id, raises)
       IN  /\ resp' = Sent("delete", student_id, r.resp,
                           raises /\ IsValidOid(student_id))
           /\ students' = r.coll
           /\ createLog' = IF r.resp.status = 204
                           THEN Drop(createLog, ObjectId(student_id))
                           ELSE createLog
           /\ deletedIds' = IF r.resp.status = 204
                            THEN deletedIds \cup {ObjectId(student_id)}
                            ELSE deletedIds
           /\ lists' = {[l EXCEPT !.since = l.since \ (Rids(students) \ Rids(r.coll))] :
                           l \in lists}
    /\ UNCHANGED <<next_rid, oid_inc, creates, issued>>

\* one batch of the cursor of request l; l.since (history) are the records
\* in the collection ever since the request began
ListBatch(l, raises) ==
    LET r == get_students_batch(students, l.cursor, raises)
    IN  IF r.done
        THEN /\ resp' = Sent("list", NoRequest, r.resp, raises)
             /\ lists' = lists \ {l}
        ELSE /\ lists' = (lists \ {l}) \cup {[cursor |-> r.cursor, since |-> l.since]}
             /\ UNCHANGED resp

\* GET /students up to the end of the first batch
ListOpen(raises) ==
    /\ Cardinality(lists) < MaxInFlight
    /\ ListBatch([cursor |-> NewCursor, since |-> Rids(students)], raises)
    /\ UNCHANGED <<students, next_rid, oid_inc, creates,
                   issued, createLog, deletedIds>>

\* GET /students, a later batch
ListNext(l, raises) ==
    /\ l \in lists
    /\ ListBatch(l, raises)
    /\ UNCHANGED <<students, next_rid, oid_inc, creates,
                   issued, createLog, deletedIds>>

\* GET /healthz
HealthCheck ==
    /\ resp' = Sent("health", NoRequest, health_check, FALSE)
    /\ UNCHANGED <<students, next_rid, oid_inc, creates, lists,
                   issued, createLog, deletedIds>>

(***************************************************************************)
(* Spec: the record operations, any of whose store calls may raise.        *)
(***************************************************************************)
Next ==
    \/ \E body \in CreateBodies : CreateInvalid(body)
    \/ \E body \in CreateBodies, raises \in BOOLEAN : CreateInsert(body, raises)
    \/ \E c \in creates, raises \in BOOLEAN : CreateFind(c, raises)
    \/ \E id \in StudentIds, raises \in BOOLEAN : GetById(id, raises)
    \/ \E id \in StudentIds, body \in UpdateBodies, raises \in BOOLEAN :
          Update(id, body, raises)
    \/ \E id \in StudentIds, raises \in BOOLEAN : Delete(id, raises)
    \/ HealthCheck

Spec == Init /\ [][Next]_vars

(***************************************************************************)
(* SpecList: listing while other clients create, update and delete.        *)
(***************************************************************************)
ListCreateBody ==
    [name |-> Present(Some("Ann")), email |-> Present(Some("a@x.com")),
     age |-> Present(Some(20)), grade |-> Absent]
ListUpdateBody == Body(Absent, Absent, Present(Some(0)), Absent)

NextList ==
    \/ CreateInsert(ListCreateBody, FALSE)
    \/ \E c \in creates : CreateFind(c, FALSE)
    \/ \E id \in IssuableIds : Update(id, ListUpdateBody, FALSE)
    \/ \E id \in IssuableIds : Delete(id, FALSE)
    \/ \E raises \in BOOLEAN : ListOpen(raises)
    \/ \E l \in lists, raises \in BOOLEAN : ListNext(l, raises)

SpecList == Init /\ [][NextList]_vars

(***************************************************************************)
(* Properties.  A handler's answer is examined in every reachable state    *)
(* on every id of AllStudentIds and every body of AllUpdateBodies.         *)
(***************************************************************************)
ValidIds == {id \in AllStudentIds : IsValidOid(id)}
InvalidIds == AllStudentIds \ ValidIds
IdsOf(oid) == {id \in ValidIds : ObjectId(id) = oid}
EmptyBodies ==
    {b \in AllUpdateBodies : \A k \in Keys : b[k] \in {Absent, Present(None)}}
NonEmptyBodies == AllUpdateBodies \ EmptyBodies
NotFound == HTTPException(404, "Student not found")
InvalidId == HTTPException(400, "Invalid student ID format")
NoFields == HTTPException(400, "No fields to update")
LiveOids == {students[i].doc._id : i \in 1..Len(students)}

\* the record a student of the request model is returned as
RecordOf(oid, student) ==
    [id |-> OidStr(oid), name |-> student.name, email |-> student.email,
     age |-> student.age, grade |-> student.grade]

\* C1: once Create has answered 201 for a record and no Update or Delete has
\* run on it since it was inserted, GetById on its id (the store answering)
\* returns 200 with the record Create returned, which carries the assigned
\* id and the submitted name, email, age and grade (None when omitted).
C1_GetAfterCreate ==
    \A oid \in DOMAIN createLog :
        createLog[oid].returned # NoBody =>
            /\ createLog[oid].returned = RecordOf(oid, createLog[oid].submitted)
            /\ \A id \in IdsOf(oid) :
                 get_student(students, id, FALSE).resp
                    = Response(200, createLog[oid].returned)

C1_Witness ==
    /\ resp.op = "get" /\ resp.status = 200
    /\ ObjectId(resp.req) \in DOMAIN createLog
    /\ createLog[ObjectId(resp.req)].returned = resp.body
    /\ resp.body.grade = None

\* C2: GetById, Update with at least one field, and Delete answer 400, never
\* 404, to an id that is not a well-formed identifier, in every state and
\* whether or not the store is reachable, and leave the collection as it was.
C2_InvalidIdIsBadRequest ==
    \A id \in InvalidIds, raises \in BOOLEAN :
        /\ get_student(students, id, raises) = [resp |-> InvalidId, coll |-> students]
        /\ delete_student(students, id, raises) = [resp |-> InvalidId, coll |-> students]
        /\ \A b \in NonEmptyBodies :
             update_student(students, id, StudentUpdate(b), raises)
                = [resp |-> InvalidId, coll |-> students]

C2_Witness ==
    /\ resp.op \in {"get", "update", "delete"}
    /\ resp.status = 400 /\ resp.body = InvalidId.body
    /\ ~IsValidOid(resp.req) /\ Len(resp.req) = 2 * OidBytes
    /\ Len(students) > 0

\* C3: an Update whose body has every field absent or null answers 400
\* "No fields to update" and leaves the collection as it was, whatever the
\* id (malformed, unknown, or of a stored record) and whether or not the
\* store would raise: the check comes before any store call.
C3_EmptyUpdateIsBadRequest ==
    \A id \in AllStudentIds, b \in EmptyBodies, raises \in BOOLEAN :
        update_student(students, id, StudentUpdate(b), raises)
            = [resp |-> NoFields, coll |-> students]

C3_Witness ==
    /\ resp.op = "update" /\ resp.status = 400 /\ resp.body = NoFields.body
    /\ ~IsValidOid(resp.req)
    /\ Len(students) > 0

\* C4: an Update that answers 200 sets in the addressed record exactly the
\* fields the body gives a value (0 and "" included), keeps the record's
\* other fields and its _id, leaves every other record and the order as
\* they were, and returns the record as stored after the update.
C4_UpdateFrame ==
    \A id \in ValidIds, b \in NonEmptyBodies :
        LET r == update_student(students, id, StudentUpdate(b), FALSE)
        IN  r.resp.status = 200 =>
              /\ Len(r.coll) = Len(students)
              /\ \A i \in 1..Len(students) :
                   IF students[i].doc._id = ObjectId(id)
                   THEN /\ r.coll[i].rid = students[i].rid
                        /\ r.coll[i].doc._id = students[i].doc._id
                        /\ \A k \in Keys :
                             r.coll[i].doc[k] =
                               IF b[k] \in {Absent, Present(None)}
                               THEN students[i].doc[k] ELSE b[k][1]
                        /\ r.resp.body = student_helper(r.coll[i].doc)
                   ELSE r.coll[i] = students[i]

C4_Witness ==
    /\ resp.op = "update" /\ resp.status = 200
    /\ resp.body.age = Some(0) /\ resp.body.grade = Some("")
    /\ Len(students) = 2
    /\ \E i \in 1..2 : student_helper(students[i].doc) = resp.body

\* C5: an id deleted with 204 is never in the collection again, whatever
\* runs later (further Creates included); GetById, Update with at least one
\* field, and Delete on it answer 404 (the store answering), and that
\* Update and Delete change nothing.
C5_DeletedStaysDeleted ==
    \A oid \in deletedIds :
        /\ oid \notin LiveOids
        /\ \A id \in IdsOf(oid) :
             /\ get_student(students, id, FALSE).resp = NotFound
             /\ delete_student(students, id, FALSE)
                   = [resp |-> NotFound, coll |-> students]
             /\ \A b \in NonEmptyBodies :
                  update_student(students, id, StudentUpdate(b), FALSE)
                     = [resp |-> NotFound, coll |-> students]

C5_Witness ==
    /\ resp.op = "delete" /\ resp.status = 404
    /\ IsValidOid(resp.req) /\ ObjectId(resp.req) \in deletedIds
    /\ Len(students) > 0

\* C6: the stored records have pairwise distinct _ids; every record still
\* has the _id it was inserted with, no _id was issued to two records, and
\* no Update, whatever its body, changes the _id of a record.
C6_IdentifiersUniqueAndFixed ==
    /\ \A i, j \in 1..Len(students) :
          students[i].doc._id = students[j].doc._id => i = j
    /\ \A i, j \in 1..Len(issued) : issued[i] = issued[j] => i = j
    /\ \A i \in 1..Len(students) : students[i].doc._id = issued[students[i].rid]
    /\ \A id \in ValidIds, b \in AllUpdateBodies :
          LET r == update_student(students, id, StudentUpdate(b), FALSE)
          IN  /\ Len(r.coll) = Len(students)
              /\ \A i \in 1..Len(students) :
                    /\ r.coll[i].rid = students[i].rid
                    /\ r.coll[i].doc._id = students[i].doc._id

C6_Witness ==
    /\ Len(students) = 2 /\ Len(issued) = 2
    /\ resp.op = "update" /\ resp.status = 200
    /\ resp.body.id = OidStr(issued[2])

\* C7: a List during which no other request runs returns every stored
\* record, in natural order, with the fields stored for it; a List that
\* other requests run alongside still returns a record for every id that
\* was in the collection from the request's start to its answer.
C7_ListReturnsAll ==
    /\ get_students(students, NewCursor)
          = Response(200, [items |-> [i \in 1..Len(students) |->
                                         student_helper(students[i].doc)]])
    /\ \A l \in lists :
          LET r == get_students_batch(students, l.cursor, FALSE)
          IN  /\ l.since \subseteq Rids(students)
              /\ r.done =>
                   /\ r.resp.status = 200
                   /\ \A rid \in l.since :
                        \E j \in 1..Len(r.resp.body.items) :
                            r.resp.body.items[j].id = OidStr(issued[rid])

C7_Witness ==
    /\ resp.op = "list" /\ resp.status = 200
    /\ Len(resp.body.items) = 2 /\ Len(students) = 2
    /\ resp.body.items[1].age = Some(20)
    /\ students[1].doc.age = Some(0)

C9_CreateReturnsSubmitted ==
    (resp.op = "create" /\ resp.req # NoRequest /\ ~resp.store_error) =>
        /\ resp.status = 201
        /\ \E i \in 1..Len(issued) : resp.body = RecordOf(issued[i], resp.req)

\* a body with each explicit null left out
OmitNulls(b) == [k \in Keys |-> IF b[k] = Present(None) THEN Absent ELSE b[k]]

\* C10: every stored record has a name, an email and an age that are not
\* None; no Update turns a field that is not None (a grade included) into
\* None; and an Update body with explicit nulls is answered, and acts,
\* exactly as the body with those keys left out.
C10_NoNullByUpdate ==
    /\ \A i \in 1..Len(students) :
          \A k \in {"name", "email", "age"} : students[i].doc[k] # None
    /\ \A id \in ValidIds, b \in AllUpdateBodies :
          LET r == update_student(students, id, StudentUpdate(b), FALSE)
          IN  \A i \in 1..Len(r.coll) : \A k \in Keys :
                 students[i].doc[k] # None => r.coll[i].doc[k] # None
    /\ \A id \in StudentIds, b \in AllUpdateBodies :
          update_student(students, id, StudentUpdate(b), FALSE)
             = update_student(students, id, StudentUpdate(OmitNulls(b)), FALSE)

C10_Witness ==
    /\ resp.op = "update" /\ resp.status = 200
    /\ resp.body.age = Some(0) /\ resp.body.grade = Some("A")

=============================================================================
